---- MODULE Spec2Model ----
(***************************************************************************)
(* Resource-aware chaos orchestration: scripts/enhanced_chaos_demo.py and  *)
(* scripts/resource_utils.py.                                              *)
(*                                                                         *)
(* The orchestrator is one Python thread.  Its control state is a stack of *)
(* labels: stack[1] is the position of main()/run_enhanced_chaos_test, and *)
(* every frame above it is an activation of stop_validator ("s_*") or of   *)
(* the signal handler ("h_stop") that interrupted the frame below it.      *)
(* Only the top frame runs.  A raised exception is carried in exc and      *)
(* unwinds the stack frame by frame as Python does.                        *)
(***************************************************************************)
EXTENDS Integers, Sequences, FiniteSets, TLC

VARIABLES
    scenario_type,      \* sys.argv[1]
    severity,           \* sys.argv[2]
    duration,           \* int(sys.argv[3])
    binaryExists,       \* build/slonana_validator is on disk
    stack,              \* control stack of the orchestrator thread
    exc,                \* exception in flight: "none", "Exception", "SystemExit"
    pending,            \* exception held while run_enhanced_chaos_test's finally runs
    validator_process,  \* self.validator_process: "None" or "Popen"
    proc,               \* the validator as the OS sees it
    stress_process,     \* local stress_process of _run_cpu_stress_scenario
    stress,             \* the stress-ng process as the OS sees it
    i,                  \* loop index of the memory_pressure / network_chaos loop
    elapsed,            \* time.time() - start_time inside monitor_stress_test
    snap,               \* the resource values the check in progress observed
    preflightOk,        \* result of pre_flight_checks
    startOk,            \* result of start_validator_with_monitoring
    scenRet,            \* return value of the scenario strategy
    ret,                \* return value of run_enhanced_chaos_test
    exitStatus,         \* process exit status, -1 while running
    sigLog,             \* signals delivered to the validator, in order
    stopCalls,          \* number of stop_validator invocations
    stopsDone,          \* stop_validator activations that finished terminate/wait
    signals,            \* SIGINT/SIGTERM deliveries to the orchestrator
    deadAtPoll,         \* the validator was not running at some scenario poll
    aborted,            \* the scenario took an abort path
    mon                 \* the ResourceMonitor call under way outside the engine

engineVars ==
    <<scenario_type, severity, duration, binaryExists, stack, exc, pending,
      validator_process, proc, stress_process, stress, i, elapsed, snap,
      preflightOk, startOk, scenRet, ret, exitStatus, sigLog, stopCalls,
      stopsDone, signals, deadAtPoll, aborted>>

vars == <<engineVars, mon>>

inputVars == <<scenario_type, severity, duration, binaryExists>>

----------------------------------------------------------------------------
(* Bounds of the model *)

MaxDuration == 20
MaxSignals == 1
MaxTimeout == 12

(* Program constants *)

MiB == 1048576
HeadroomMb == 512
CriticalMb == 256
MemPressurePct == 850
CpuThresholdPct == 850
DiskThresholdPct == 900
MemoryCadence == 10
NetworkCadence == 5
MaxLogInterval == 30
LogIntervalDivisor == 10
CpuSampleSecs == 1
WaitSleepSecs == 5

ScenarioTypes == {"memory_pressure", "cpu_stress", "network_chaos", "disk_fill"}
Severities == {"low", "medium", "high"}
Durations == {0, 9, 10, MaxDuration}

(* Resource values a query may observe.  Byte counts sit on both sides of   *)
(* the 256 MB and 512 MB limits; percentages are in tenths of a percent, on *)
(* both sides of their thresholds.                                          *)
AvailBytes == {CriticalMb * MiB - 1, CriticalMb * MiB,
               HeadroomMb * MiB - 1, HeadroomMb * MiB}
MemPcts == {MemPressurePct, MemPressurePct + 1}
CpuPcts == {CpuThresholdPct, CpuThresholdPct + 1}
DiskPcts == {DiskThresholdPct, DiskThresholdPct + 1}

Samples == [avail : AvailBytes, memPct : MemPcts, cpuPct : CpuPcts, diskPct : DiskPcts]

NoSnap == [site |-> "none", avail |-> 0, memPct |-> 0, cpuPct |-> 0, diskPct |-> 0]

Observed(s, site) ==
    [site |-> site, avail |-> s.avail, memPct |-> s.memPct,
     cpuPct |-> s.cpuPct, diskPct |-> s.diskPct]

----------------------------------------------------------------------------
(* resource_utils.py: pure parts *)

(* Python truth value of a tuple: a non-empty tuple is true. *)
PyTruthy(t) == Len(t) > 0

(* an ensure_memory_headroom that also rejects available_mb = required_mb *)
MonitorEnsureHeadroomRejectsEqual(s, min_mb, memory_headroom_mb) ==
    LET required_mb == IF min_mb # <<>> THEN min_mb[1] ELSE memory_headroom_mb
    IN  IF s.avail <= required_mb * MiB
        THEN <<FALSE, "insufficient">>
        ELSE <<TRUE, "sufficient">>

(* ResourceMonitor.ensure_memory_headroom(min_mb): min_mb is <<>> for None.  *)
(* available_mb = memory.available / 2^20 is exact, so                       *)
(* available_mb < required_mb  iff  memory.available < required_mb * 2^20.   *)
MonitorEnsureHeadroom(s, min_mb, memory_headroom_mb) ==
    LET required_mb == IF min_mb # <<>> THEN min_mb[1] ELSE memory_headroom_mb
    IN  IF s.avail < required_mb * MiB
        THEN <<FALSE, "insufficient">>
        ELSE <<TRUE, "sufficient">>

(* module-level ensure_memory_headroom(min_mb) -> bool *)
ensure_memory_headroom(s, min_mb) ==
    MonitorEnsureHeadroom(s, <<>>, min_mb)[1]

(* a check_resource_pressure written as an if / elif chain: first breach only *)
check_resource_pressure_FirstOnly(s, cpu_threshold, disk_threshold) ==
    LET issues == IF s.memPct > MemPressurePct THEN <<"memory">>
                  ELSE IF s.cpuPct > cpu_threshold THEN <<"cpu">>
                  ELSE IF s.diskPct > disk_threshold THEN <<"disk">>
                  ELSE <<>>
    IN  <<Len(issues) > 0, issues>>

(* ResourceMonitor.check_resource_pressure() -> (has_pressure, issues) *)
check_resource_pressure(s, cpu_threshold, disk_threshold) ==
    LET mem  == IF s.memPct > MemPressurePct THEN <<"memory">> ELSE <<>>
        cpu  == IF s.cpuPct > cpu_threshold THEN <<"cpu">> ELSE <<>>
        disk == IF s.diskPct > disk_threshold THEN <<"disk">> ELSE <<>>
        issues == mem \o cpu \o disk
    IN  <<Len(issues) > 0, issues>>

(* check_system_health with the pressure test left out *)
check_system_health_NoPressureTest(s) ==
    MonitorEnsureHeadroom(s, <<>>, HeadroomMb)[1]

(* check_system_health() -> bool, on a default ResourceMonitor() *)
check_system_health(s) ==
    LET memory_ok == MonitorEnsureHeadroom(s, <<>>, HeadroomMb)[1]
        pressure  == check_resource_pressure(s, CpuThresholdPct, DiskThresholdPct)[1]
    IN  IF ~memory_ok THEN FALSE
        ELSE IF pressure THEN FALSE
        ELSE TRUE

(* a log interval halved for the "high" severity *)
LogIntervalScaledBySeverity(d) ==
    LET base == IF d \div LogIntervalDivisor < MaxLogInterval
                THEN d \div LogIntervalDivisor ELSE MaxLogInterval
    IN  IF severity = "high" THEN base \div 2 ELSE base

(* log_interval = min(30, duration_seconds // 10) *)
LogInterval(d) ==
    IF d \div LogIntervalDivisor < MaxLogInterval
    THEN d \div LogIntervalDivisor ELSE MaxLogInterval

----------------------------------------------------------------------------
(* Control stack helpers *)

Top == stack[Len(stack)]
Below == SubSeq(stack, 1, Len(stack) - 1)
SetTop(l) == [stack EXCEPT ![Len(stack)] = l]

AtMain(l) == Len(stack) = 1 /\ stack[1] = l /\ exc = "none"
AtTop(l) == Len(stack) > 1 /\ Top = l /\ exc = "none"

StopTryLabels == {"s_term", "s_wait", "s_kill", "s_wait2"}
StopLabels == StopTryLabels \cup {"s_enter", "s_log"}
StartTryLabels == {"launch", "assign", "startup_sleep", "post_start"}
MemoryLabels == {"mp_init", "mp_loop"}
NetworkLabels == {"nc_loop"}
CpuTryLabels == {"cs_which", "cs_monitor", "cs_loop", "cs_wait"}
ScenarioLabels == {"dispatch"} \cup MemoryLabels \cup NetworkLabels \cup CpuTryLabels

ExitCode(e) == IF e = "SystemExit" THEN 0 ELSE 1

(* no ResourceMonitor call is under way outside the engine *)
MonIdle == [op |-> "idle"]

Init ==
    /\ scenario_type \in ScenarioTypes
    /\ severity \in Severities
    /\ duration \in Durations
    /\ binaryExists \in BOOLEAN
    /\ stack = <<"preflight">>
    /\ exc = "none"
    /\ pending = "none"
    /\ validator_process = "None"
    /\ proc = "none"
    /\ stress_process = "None"
    /\ stress = "none"
    /\ i = 0
    /\ elapsed = 0
    /\ snap = NoSnap
    /\ preflightOk = "none"
    /\ startOk = "none"
    /\ scenRet = "none"
    /\ ret = "none"
    /\ exitStatus = -1
    /\ sigLog = <<>>
    /\ stopCalls = 0
    /\ stopsDone = 0
    /\ signals = 0
    /\ deadAtPoll = FALSE
    /\ aborted = FALSE
    /\ mon = MonIdle


----------------------------------------------------------------------------
(* EnhancedChaosEngine.pre_flight_checks *)

(* check_system_health(), lines 41-43 *)
PreFlightHealth ==
    /\ AtMain("preflight")
    /\ \E s \in Samples, queryFails \in BOOLEAN :
        IF queryFails
        THEN /\ exc' = "Exception"
             /\ UNCHANGED <<stack, snap, preflightOk, ret>>
        ELSE /\ snap' = Observed(s, "preflight")
             /\ exc' = exc
             /\ IF check_system_health(s)
                THEN /\ stack' = <<"preflight2">>
                     /\ UNCHANGED <<preflightOk, ret>>
                ELSE /\ stack' = <<"finally">>
                     /\ preflightOk' = "False"
                     /\ ret' = "False"
    /\ UNCHANGED <<inputVars, mon, pending, validator_process, proc, stress_process,
                   stress, i, elapsed, startOk, scenRet, exitStatus, sigLog,
                   stopCalls, stopsDone, signals, deadAtPoll, aborted>>

(* ensure_memory_headroom(512) and _check_validator_availability(), lines 46-56. *)
(* The second query reads memory only: the other metrics keep their last values. *)
PreFlightHeadroom ==
    /\ AtMain("preflight2")
    /\ \E s \in Samples, queryFails \in BOOLEAN :
        IF queryFails
        THEN /\ exc' = "Exception"
             /\ UNCHANGED <<stack, snap, preflightOk, ret>>
        ELSE /\ snap' = [snap EXCEPT !.avail = s.avail]
             /\ exc' = exc
             /\ IF ensure_memory_headroom(s, HeadroomMb) /\ binaryExists
                THEN /\ stack' = <<"start_log">>
                     /\ preflightOk' = "True"
                     /\ ret' = ret
                ELSE /\ stack' = <<"finally">>
                     /\ preflightOk' = "False"
                     /\ ret' = "False"
    /\ UNCHANGED <<inputVars, mon, pending, validator_process, proc, stress_process,
                   stress, i, elapsed, startOk, scenRet, exitStatus, sigLog,
                   stopCalls, stopsDone, signals, deadAtPoll, aborted>>

----------------------------------------------------------------------------
(* EnhancedChaosEngine.start_validator_with_monitoring *)

(* log_resource_usage("Before validator startup"), line 71, outside the try *)
StartLog ==
    /\ AtMain("start_log")
    /\ \E queryFails \in BOOLEAN :
        IF queryFails
        THEN exc' = "Exception" /\ stack' = stack
        ELSE exc' = exc /\ stack' = <<"launch">>
    /\ UNCHANGED <<inputVars, mon, pending, validator_process, proc, stress_process,
                   stress, i, elapsed, snap, preflightOk, startOk, scenRet, ret,
                   exitStatus, sigLog, stopCalls, stopsDone, signals,
                   deadAtPoll, aborted>>

(* subprocess.Popen(cmd, ...), lines 81-86: the call itself.  The child runs *)
(* once Popen returns; the attribute is stored by the next step.            *)
Launch ==
    /\ AtMain("launch")
    /\ \E popenRaises \in BOOLEAN :
        IF popenRaises
        THEN exc' = "Exception" /\ UNCHANGED <<stack, proc>>
        ELSE exc' = exc /\ stack' = <<"assign">> /\ proc' = "running"
    /\ UNCHANGED <<inputVars, mon, pending, validator_process, stress_process,
                   stress, i, elapsed, snap, preflightOk, startOk, scenRet, ret,
                   exitStatus, sigLog, stopCalls, stopsDone, signals,
                   deadAtPoll, aborted>>

(* self.validator_process = <the Popen object>, line 81 *)
Assign ==
    /\ AtMain("assign")
    /\ validator_process' = "Popen"
    /\ stack' = <<"startup_sleep">>
    /\ UNCHANGED <<inputVars, mon, exc, pending, proc, stress_process,
                   stress, i, elapsed, snap, preflightOk, startOk, scenRet, ret,
                   exitStatus, sigLog, stopCalls, stopsDone, signals,
                   deadAtPoll, aborted>>

(* a startup check that launches the binary again when the first child died *)
StartupSleepRetries ==
    /\ AtMain("startup_sleep")
    /\ proc' = "running"
    /\ stack' = <<"post_start">>
    /\ UNCHANGED <<startOk, ret>>
    /\ UNCHANGED <<inputVars, mon, exc, pending, validator_process, stress_process,
                   stress, i, elapsed, snap, preflightOk, scenRet,
                   exitStatus, sigLog, stopCalls, stopsDone, signals,
                   deadAtPoll, aborted>>

(* time.sleep(5); validator_process.poll(), lines 90-94.  poll() reaps an    *)
(* exited child.                                                             *)
StartupSleep ==
    /\ AtMain("startup_sleep")
    /\ IF proc # "running"
       THEN /\ proc' = "reaped"
            /\ startOk' = "False"
            /\ ret' = "False"
            /\ stack' = <<"finally">>
       ELSE /\ stack' = <<"post_start">>
            /\ UNCHANGED <<proc, startOk, ret>>
    /\ UNCHANGED <<inputVars, mon, exc, pending, validator_process, stress_process,
                   stress, i, elapsed, snap, preflightOk, scenRet,
                   exitStatus, sigLog, stopCalls, stopsDone, signals,
                   deadAtPoll, aborted>>

(* lines 97-105: log, then `if not self.resource_monitor.ensure_memory_headroom()`. *)
(* The method returns the tuple (success, message); `not` is applied to the tuple.  *)
PostStart ==
    /\ AtMain("post_start")
    /\ \E s \in Samples, queryFails \in BOOLEAN :
        IF queryFails
        THEN /\ exc' = "Exception"
             /\ UNCHANGED <<stack, snap, startOk, ret>>
        ELSE /\ snap' = Observed(s, "post_start")
             /\ exc' = exc
             /\ IF ~PyTruthy(MonitorEnsureHeadroom(s, <<>>, HeadroomMb))
                THEN /\ startOk' = "False"
                     /\ ret' = "False"
                     /\ stack' = <<"finally">>
                ELSE /\ startOk' = "True"
                     /\ ret' = ret
                     /\ stack' = <<"dispatch">>
    /\ UNCHANGED <<inputVars, mon, pending, validator_process, proc, stress_process,
                   stress, i, elapsed, preflightOk, scenRet, exitStatus, sigLog,
                   stopCalls, stopsDone, signals, deadAtPoll, aborted>>

----------------------------------------------------------------------------
(* EnhancedChaosEngine.run_chaos_scenario, lines 121-129 *)

(* a dispatch whose final else branch reports success instead of failure *)
DispatchFailOpen ==
    /\ AtMain("dispatch")
    /\ i' = 0
    /\ elapsed' = 0
    /\ IF scenario_type = "memory_pressure"
       THEN stack' = <<"mp_init">> /\ UNCHANGED <<scenRet, ret>>
       ELSE IF scenario_type = "cpu_stress"
       THEN stack' = <<"cs_which">> /\ UNCHANGED <<scenRet, ret>>
       ELSE IF scenario_type = "network_chaos"
       THEN stack' = <<"nc_loop">> /\ UNCHANGED <<scenRet, ret>>
       ELSE stack' = <<"finally">> /\ scenRet' = "True" /\ ret' = "True"
    /\ UNCHANGED <<inputVars, mon, exc, pending, validator_process, proc,
                   stress_process, stress, snap, preflightOk, startOk,
                   exitStatus, sigLog, stopCalls, stopsDone, signals,
                   deadAtPoll, aborted>>

(* lines 111-133: only the three known types reach a strategy; any other *)
(* type logs "Unknown scenario type" and returns False                   *)
Dispatch ==
    /\ AtMain("dispatch")
    /\ i' = 0
    /\ elapsed' = 0
    /\ IF scenario_type = "memory_pressure"
       THEN stack' = <<"mp_init">> /\ UNCHANGED <<scenRet, ret>>
       ELSE IF scenario_type = "cpu_stress"
       THEN stack' = <<"cs_which">> /\ UNCHANGED <<scenRet, ret>>
       ELSE IF scenario_type = "network_chaos"
       THEN stack' = <<"nc_loop">> /\ UNCHANGED <<scenRet, ret>>
       ELSE stack' = <<"finally">> /\ scenRet' = "False" /\ ret' = "False"
    /\ UNCHANGED <<inputVars, mon, exc, pending, validator_process, proc,
                   stress_process, stress, snap, preflightOk, startOk,
                   exitStatus, sigLog, stopCalls, stopsDone, signals,
                   deadAtPoll, aborted>>


----------------------------------------------------------------------------
(* EnhancedChaosEngine._run_memory_pressure_scenario *)

(* self.resource_monitor.get_memory_info(), lines 140-146 *)
MpInit ==
    /\ AtMain("mp_init")
    /\ \E queryFails \in BOOLEAN :
        IF queryFails
        THEN exc' = "Exception" /\ stack' = stack
        ELSE exc' = exc /\ stack' = <<"mp_loop">>
    /\ UNCHANGED <<inputVars, mon, pending, validator_process, proc, stress_process,
                   stress, i, elapsed, snap, preflightOk, startOk, scenRet, ret,
                   exitStatus, sigLog, stopCalls, stopsDone, signals,
                   deadAtPoll, aborted>>

(* an iteration that takes a reading but decides on the one the iteration *)
(* before it took, when there is one                                      *)
MpIterStaleSample ==
    /\ AtMain("mp_loop")
    /\ i < duration \div MemoryCadence
    /\ \E s \in Samples, queryFails \in BOOLEAN :
        LET used == IF snap.site = "poll" THEN snap ELSE s
        IN  IF queryFails
            THEN /\ exc' = "Exception"
                 /\ UNCHANGED <<stack, snap, proc, i, scenRet, ret, deadAtPoll, aborted>>
            ELSE /\ exc' = exc
                 /\ snap' = Observed(s, "poll")
                 /\ deadAtPoll' = (deadAtPoll \/ proc # "running")
                 /\ IF check_resource_pressure(used, CpuThresholdPct, DiskThresholdPct)[1]
                    THEN /\ aborted' = TRUE
                         /\ scenRet' = "True"
                         /\ ret' = "True"
                         /\ stack' = <<"finally">>
                         /\ UNCHANGED <<proc, i>>
                    ELSE IF validator_process # "None" /\ proc # "running"
                    THEN /\ proc' = "reaped"
                         /\ aborted' = TRUE
                         /\ scenRet' = "False"
                         /\ ret' = "False"
                         /\ stack' = <<"finally">>
                         /\ i' = i
                    ELSE IF ~ensure_memory_headroom(used, CriticalMb)
                    THEN /\ aborted' = TRUE
                         /\ scenRet' = "True"
                         /\ ret' = "True"
                         /\ stack' = <<"finally">>
                         /\ UNCHANGED <<proc, i>>
                    ELSE /\ i' = i + 1
                         /\ UNCHANGED <<stack, proc, scenRet, ret, aborted>>
    /\ UNCHANGED <<inputVars, mon, pending, validator_process, stress_process, stress,
                   elapsed, preflightOk, startOk, exitStatus, sigLog, stopCalls,
                   stopsDone, signals>>

(* one iteration of `for i in range(self.duration // 10)`, lines 149-172 *)
MpIter ==
    /\ AtMain("mp_loop")
    /\ i < duration \div MemoryCadence
    /\ \E s \in Samples, queryFails \in BOOLEAN :
        IF queryFails
        THEN /\ exc' = "Exception"
             /\ UNCHANGED <<stack, snap, proc, i, scenRet, ret, deadAtPoll, aborted>>
        ELSE /\ exc' = exc
             /\ snap' = Observed(s, "poll")
             /\ deadAtPoll' = (deadAtPoll \/ proc # "running")
             /\ IF check_resource_pressure(s, CpuThresholdPct, DiskThresholdPct)[1]
                THEN \* break, then line 174-175
                     /\ aborted' = TRUE
                     /\ scenRet' = "True"
                     /\ ret' = "True"
                     /\ stack' = <<"finally">>
                     /\ UNCHANGED <<proc, i>>
                ELSE IF validator_process # "None" /\ proc # "running"
                THEN \* poll() is not None: return False
                     /\ proc' = "reaped"
                     /\ aborted' = TRUE
                     /\ scenRet' = "False"
                     /\ ret' = "False"
                     /\ stack' = <<"finally">>
                     /\ i' = i
                ELSE IF ~ensure_memory_headroom(s, CriticalMb)
                THEN \* break, then line 174-175
                     /\ aborted' = TRUE
                     /\ scenRet' = "True"
                     /\ ret' = "True"
                     /\ stack' = <<"finally">>
                     /\ UNCHANGED <<proc, i>>
                ELSE \* time.sleep(10)
                     /\ i' = i + 1
                     /\ UNCHANGED <<stack, proc, scenRet, ret, aborted>>
    /\ UNCHANGED <<inputVars, mon, pending, validator_process, stress_process, stress,
                   elapsed, preflightOk, startOk, exitStatus, sigLog, stopCalls,
                   stopsDone, signals>>

(* the range is exhausted: lines 174-175 *)
MpDone ==
    /\ AtMain("mp_loop")
    /\ i >= duration \div MemoryCadence
    /\ scenRet' = "True"
    /\ ret' = "True"
    /\ stack' = <<"finally">>
    /\ UNCHANGED <<inputVars, mon, exc, pending, validator_process, proc,
                   stress_process, stress, i, elapsed, snap, preflightOk,
                   startOk, exitStatus, sigLog, stopCalls, stopsDone, signals,
                   deadAtPoll, aborted>>

----------------------------------------------------------------------------
(* EnhancedChaosEngine._run_network_chaos_scenario *)

(* a health check that relaunches a dead validator and carries on *)
NcIterRestarts ==
    /\ AtMain("nc_loop")
    /\ i < duration \div NetworkCadence
    /\ \E s \in Samples, queryFails \in BOOLEAN :
        IF queryFails
        THEN /\ exc' = "Exception"
             /\ UNCHANGED <<stack, snap, proc, i, scenRet, ret, deadAtPoll, aborted>>
        ELSE /\ exc' = exc
             /\ snap' = Observed(s, "poll")
             /\ deadAtPoll' = (deadAtPoll \/ proc # "running")
             /\ proc' = IF validator_process # "None" /\ proc # "running"
                        THEN "running" ELSE proc
             /\ i' = i + 1
             /\ UNCHANGED <<stack, scenRet, ret, aborted>>
    /\ UNCHANGED <<inputVars, mon, pending, validator_process, stress_process, stress,
                   elapsed, preflightOk, startOk, exitStatus, sigLog, stopCalls,
                   stopsDone, signals>>

(* one iteration of `for i in range(self.duration // 5)`, lines 217-225 *)
NcIter ==
    /\ AtMain("nc_loop")
    /\ i < duration \div NetworkCadence
    /\ \E s \in Samples, queryFails \in BOOLEAN :
        IF queryFails
        THEN /\ exc' = "Exception"
             /\ UNCHANGED <<stack, snap, proc, i, scenRet, ret, deadAtPoll, aborted>>
        ELSE /\ exc' = exc
             /\ snap' = Observed(s, "poll")
             /\ deadAtPoll' = (deadAtPoll \/ proc # "running")
             /\ IF validator_process # "None" /\ proc # "running"
                THEN /\ proc' = "reaped"
                     /\ aborted' = TRUE
                     /\ scenRet' = "False"
                     /\ ret' = "False"
                     /\ stack' = <<"finally">>
                     /\ i' = i
                ELSE \* time.sleep(5)
                     /\ i' = i + 1
                     /\ UNCHANGED <<stack, proc, scenRet, ret, aborted>>
    /\ UNCHANGED <<inputVars, mon, pending, validator_process, stress_process, stress,
                   elapsed, preflightOk, startOk, exitStatus, sigLog, stopCalls,
                   stopsDone, signals>>

(* lines 227-228 *)
NcDone ==
    /\ AtMain("nc_loop")
    /\ i >= duration \div NetworkCadence
    /\ scenRet' = "True"
    /\ ret' = "True"
    /\ stack' = <<"finally">>
    /\ UNCHANGED <<inputVars, mon, exc, pending, validator_process, proc,
                   stress_process, stress, i, elapsed, snap, preflightOk,
                   startOk, exitStatus, sigLog, stopCalls, stopsDone, signals,
                   deadAtPoll, aborted>>

----------------------------------------------------------------------------
(* EnhancedChaosEngine._run_cpu_stress_scenario and monitor_stress_test *)

(* `which stress-ng`, then Popen(["stress-ng", ...]) when it is present, lines 192-195 *)
CsWhich ==
    /\ AtMain("cs_which")
    /\ \E present \in BOOLEAN :
        IF present
        THEN stress_process' = "Popen" /\ stress' = "running"
        ELSE UNCHANGED <<stress_process, stress>>
    /\ stack' = <<"cs_monitor">>
    /\ UNCHANGED <<inputVars, mon, exc, pending, validator_process, proc, i, elapsed,
                   snap, preflightOk, startOk, scenRet, ret, exitStatus, sigLog,
                   stopCalls, stopsDone, signals, deadAtPoll, aborted>>

(* monitor_stress_test, lines 250-256: start_time, log_interval, first log *)
CsMonitorStart ==
    /\ AtMain("cs_monitor")
    /\ \E queryFails \in BOOLEAN :
        IF queryFails
        THEN exc' = "Exception" /\ UNCHANGED <<stack, elapsed>>
        ELSE exc' = exc /\ stack' = <<"cs_loop">> /\ elapsed' = 0
    /\ UNCHANGED <<inputVars, mon, pending, validator_process, proc, stress_process,
                   stress, i, snap, preflightOk, startOk, scenRet, ret,
                   exitStatus, sigLog, stopCalls, stopsDone, signals,
                   deadAtPoll, aborted>>

(* a monitor loop that measures the elapsed time from the start of the *)
(* pass it is in, so that the while condition never turns false        *)
CsIterClockReset ==
    /\ AtMain("cs_loop")
    /\ elapsed < duration
    /\ \E s \in Samples, queryFails \in BOOLEAN :
        IF queryFails
        THEN /\ exc' = "Exception"
             /\ UNCHANGED <<stack, snap, elapsed, deadAtPoll, aborted>>
        ELSE /\ exc' = exc
             /\ snap' = Observed(s, "poll")
             /\ deadAtPoll' = (deadAtPoll \/ proc # "running")
             /\ elapsed' = elapsed
             /\ IF /\ check_resource_pressure(s, CpuThresholdPct, DiskThresholdPct)[1]
                   /\ s.avail < CriticalMb * MiB
                THEN aborted' = TRUE /\ stack' = <<"cs_wait">>
                ELSE UNCHANGED <<stack, aborted>>
    /\ UNCHANGED <<inputVars, mon, pending, validator_process, proc, stress_process,
                   stress, i, preflightOk, startOk, scenRet, ret, exitStatus,
                   sigLog, stopCalls, stopsDone, signals>>

(* one iteration of the while loop, lines 259-275: sleep(log_interval), a log  *)
(* and a pressure check, each sampling the CPU for one second.  The value      *)
(* monitor_stress_test returns is dropped by the caller at line 198.           *)
CsIter ==
    /\ AtMain("cs_loop")
    /\ elapsed < duration
    /\ \E s \in Samples, queryFails \in BOOLEAN :
        IF queryFails
        THEN /\ exc' = "Exception"
             /\ UNCHANGED <<stack, snap, elapsed, deadAtPoll, aborted>>
        ELSE /\ exc' = exc
             /\ snap' = Observed(s, "poll")
             /\ deadAtPoll' = (deadAtPoll \/ proc # "running")
             /\ IF /\ check_resource_pressure(s, CpuThresholdPct, DiskThresholdPct)[1]
                   /\ s.avail < CriticalMb * MiB
                THEN \* return False from monitor_stress_test
                     /\ aborted' = TRUE
                     /\ stack' = <<"cs_wait">>
                     /\ elapsed' = elapsed
                ELSE /\ elapsed' = elapsed + LogInterval(duration) + 2 * CpuSampleSecs
                     /\ UNCHANGED <<stack, aborted>>
    /\ UNCHANGED <<inputVars, mon, pending, validator_process, proc, stress_process,
                   stress, i, preflightOk, startOk, scenRet, ret, exitStatus,
                   sigLog, stopCalls, stopsDone, signals>>

(* the while condition is false: lines 280-283 *)
CsMonitorDone ==
    /\ AtMain("cs_loop")
    /\ elapsed >= duration
    /\ \E queryFails \in BOOLEAN :
        IF queryFails
        THEN exc' = "Exception" /\ stack' = stack
        ELSE exc' = exc /\ stack' = <<"cs_wait">>
    /\ UNCHANGED <<inputVars, mon, pending, validator_process, proc, stress_process,
                   stress, i, elapsed, snap, preflightOk, startOk, scenRet, ret,
                   exitStatus, sigLog, stopCalls, stopsDone, signals,
                   deadAtPoll, aborted>>

(* `if stress_process: stress_process.wait()`, then return True, lines 200-204 *)
CsWait ==
    /\ AtMain("cs_wait")
    /\ IF stress_process = "Popen"
       THEN stress # "running" /\ stress' = "reaped"
       ELSE stress' = stress
    /\ scenRet' = "True"
    /\ ret' = "True"
    /\ stack' = <<"finally">>
    /\ UNCHANGED <<inputVars, mon, exc, pending, validator_process, proc,
                   stress_process, i, elapsed, snap, preflightOk, startOk,
                   exitStatus, sigLog, stopCalls, stopsDone, signals,
                   deadAtPoll, aborted>>


----------------------------------------------------------------------------
(* the cleanup written after the scenario instead of in a finally clause: *)
(* a failed run returns without it                                        *)
FinallyOnlyOnSuccess ==
    /\ AtMain("finally")
    /\ snap' = NoSnap
    /\ i' = 0
    /\ elapsed' = 0
    /\ IF ret = "True"
       THEN /\ stack' = <<"in_finally", "s_enter">>
            /\ stopCalls' = stopCalls + 1
            /\ exitStatus' = exitStatus
       ELSE /\ stack' = IF pending = "none" THEN <<"report">> ELSE <<"exited">>
            /\ exitStatus' = IF pending = "none" THEN exitStatus ELSE ExitCode(pending)
            /\ stopCalls' = stopCalls
    /\ UNCHANGED <<inputVars, mon, exc, pending, validator_process, proc,
                   stress_process, stress, preflightOk, startOk, scenRet, ret,
                   sigLog, stopsDone, signals, deadAtPoll, aborted>>

(* EnhancedChaosEngine.run_enhanced_chaos_test: the finally clause, line 272. *)
(* The checks and loops have returned: their locals are no longer held.       *)

Finally ==
    /\ AtMain("finally")
    /\ stack' = <<"in_finally", "s_enter">>
    /\ stopCalls' = stopCalls + 1
    /\ snap' = NoSnap
    /\ i' = 0
    /\ elapsed' = 0
    /\ UNCHANGED <<inputVars, mon, exc, pending, validator_process, proc,
                   stress_process, stress, preflightOk,
                   startOk, scenRet, ret, exitStatus, sigLog, stopsDone,
                   signals, deadAtPoll, aborted>>

----------------------------------------------------------------------------
(* EnhancedChaosEngine.stop_validator *)

(* stop_validator returns to its caller.  Called from the finally clause, the  *)
(* run returns its value or re-raises the held exception, which nothing above  *)
(* catches.  Called from signal_handler, the handler goes on to sys.exit(0),   *)
(* lines 298-299, which raises SystemExit in the frame it interrupted.         *)
ReturnFromStop ==
    IF Below[Len(Below)] = "h_stop"
    THEN /\ stack' = SubSeq(stack, 1, Len(stack) - 2)
         /\ exc' = "SystemExit"
         /\ exitStatus' = exitStatus
    ELSE /\ exc' = exc
         /\ IF pending = "none"
            THEN stack' = <<"report">> /\ exitStatus' = exitStatus
            ELSE stack' = <<"exited">> /\ exitStatus' = ExitCode(pending)

(* `if self.validator_process:`, line 232 *)
StopEnter ==
    /\ AtTop("s_enter")
    /\ IF validator_process = "None"
       THEN ReturnFromStop
       ELSE stack' = SetTop("s_term") /\ UNCHANGED <<exc, exitStatus>>
    /\ UNCHANGED <<inputVars, mon, pending, validator_process, proc, stress_process,
                   stress, i, elapsed, snap, preflightOk, startOk, scenRet, ret,
                   sigLog, stopCalls, stopsDone, signals, deadAtPoll, aborted>>

(* a terminate() whose error leaves stop_validator at once, as if the final *)
(* log stood inside the try                                                *)
StopTerminateErrorSkipsLog ==
    /\ AtTop("s_term")
    /\ \E killRaises \in BOOLEAN :
        IF proc = "running" /\ killRaises
        THEN ReturnFromStop /\ UNCHANGED <<sigLog, proc>>
        ELSE /\ stack' = SetTop("s_wait")
             /\ sigLog' = IF proc = "running" THEN Append(sigLog, "TERM") ELSE sigLog
             /\ proc' = IF proc = "running" THEN proc ELSE "reaped"
             /\ UNCHANGED <<exc, exitStatus>>
    /\ UNCHANGED <<inputVars, mon, pending, validator_process, stress_process,
                   stress, i, elapsed, snap, preflightOk, startOk, scenRet, ret,
                   stopCalls, stopsDone, signals, deadAtPoll, aborted>>

(* validator_process.terminate(), line 236.  Popen.send_signal polls first and *)
(* signals only a child that has not exited; os.kill may raise.                *)
StopTerminate ==
    /\ AtTop("s_term")
    /\ IF proc = "running"
       THEN \E killRaises \in BOOLEAN :
              IF killRaises
              THEN stack' = SetTop("s_log") /\ UNCHANGED <<sigLog, proc>>
              ELSE /\ stack' = SetTop("s_wait")
                   /\ sigLog' = Append(sigLog, "TERM")
                   /\ proc' = proc
       ELSE /\ stack' = SetTop("s_wait")
            /\ proc' = "reaped"
            /\ sigLog' = sigLog
    /\ UNCHANGED <<inputVars, mon, exc, pending, validator_process, stress_process,
                   stress, i, elapsed, snap, preflightOk, startOk, scenRet, ret,
                   exitStatus, stopCalls, stopsDone, signals, deadAtPoll, aborted>>

(* the grace wait escalating whether or not the validator exited in time *)
StopWaitAlwaysEscalates ==
    /\ AtTop("s_wait")
    /\ stack' = SetTop("s_kill")
    /\ UNCHANGED <<inputVars, mon, exc, pending, validator_process, proc,
                   stress_process, stress, i, elapsed, snap, preflightOk,
                   startOk, scenRet, ret, exitStatus, sigLog, stopCalls,
                   stopsDone, signals, deadAtPoll, aborted>>

(* validator_process.wait(timeout=10), lines 240-244 *)
StopWait ==
    /\ AtTop("s_wait")
    /\ \E exitsInGrace \in BOOLEAN :
        IF proc # "running" \/ exitsInGrace
        THEN /\ proc' = "reaped"
             /\ stopsDone' = stopsDone + 1
             /\ stack' = SetTop("s_log")
        ELSE \* subprocess.TimeoutExpired
             /\ stack' = SetTop("s_kill")
             /\ UNCHANGED <<proc, stopsDone>>
    /\ UNCHANGED <<inputVars, mon, exc, pending, validator_process, stress_process,
                   stress, i, elapsed, snap, preflightOk, startOk, scenRet, ret,
                   exitStatus, sigLog, stopCalls, signals, deadAtPoll, aborted>>

(* validator_process.kill(), line 245 *)
StopKill ==
    /\ AtTop("s_kill")
    /\ IF proc = "running"
       THEN sigLog' = Append(sigLog, "KILL") /\ proc' = "exited"
       ELSE sigLog' = sigLog /\ proc' = "reaped"
    /\ stack' = SetTop("s_wait2")
    /\ UNCHANGED <<inputVars, mon, exc, pending, validator_process, stress_process,
                   stress, i, elapsed, snap, preflightOk, startOk, scenRet, ret,
                   exitStatus, stopCalls, stopsDone, signals, deadAtPoll, aborted>>

(* validator_process.wait(), line 246: no timeout *)
StopWait2 ==
    /\ AtTop("s_wait2")
    /\ proc # "running"
    /\ proc' = "reaped"
    /\ stopsDone' = stopsDone + 1
    /\ stack' = SetTop("s_log")
    /\ UNCHANGED <<inputVars, mon, exc, pending, validator_process, stress_process,
                   stress, i, elapsed, snap, preflightOk, startOk, scenRet, ret,
                   exitStatus, sigLog, stopCalls, signals, deadAtPoll, aborted>>

(* log_resource_usage("After validator shutdown"), line 252, outside the try *)
StopLog ==
    /\ AtTop("s_log")
    /\ \E queryFails \in BOOLEAN :
        IF queryFails
        THEN stack' = Below /\ exc' = "Exception" /\ exitStatus' = exitStatus
        ELSE ReturnFromStop
    /\ UNCHANGED <<inputVars, mon, pending, validator_process, proc, stress_process,
                   stress, i, elapsed, snap, preflightOk, startOk, scenRet, ret,
                   sigLog, stopCalls, stopsDone, signals, deadAtPoll, aborted>>

----------------------------------------------------------------------------
(* main.signal_handler, lines 296-302 *)

(* SIGINT or SIGTERM is delivered: the handler runs on top of whatever the  *)
(* thread was doing and calls engine.stop_validator().  The handler never    *)
(* returns, so no interrupted check or loop reads its locals again.         *)
Interrupt ==
    /\ exc = "none"
    /\ Top # "exited"
    /\ signals < MaxSignals
    /\ signals' = signals + 1
    /\ stopCalls' = stopCalls + 1
    /\ stack' = stack \o <<"h_stop", "s_enter">>
    /\ snap' = NoSnap
    /\ i' = 0
    /\ elapsed' = 0
    /\ UNCHANGED <<inputVars, mon, exc, pending, validator_process, proc,
                   stress_process, stress, preflightOk,
                   startOk, scenRet, ret, exitStatus, sigLog, stopsDone,
                   deadAtPoll, aborted>>

----------------------------------------------------------------------------
(* Exception propagation *)

(* through a stop_validator frame: `except Exception`, line 248, catches an  *)
(* Exception raised inside the try and goes on to the final log.             *)
UnwindStop ==
    /\ exc # "none"
    /\ Len(stack) > 1
    /\ Top \in StopLabels
    /\ IF exc = "Exception" /\ Top \in StopTryLabels
       THEN stack' = SetTop("s_log") /\ exc' = "none"
       ELSE stack' = Below /\ exc' = exc
    /\ UNCHANGED <<inputVars, mon, pending, validator_process, proc, stress_process,
                   stress, i, elapsed, snap, preflightOk, startOk, scenRet, ret,
                   exitStatus, sigLog, stopCalls, stopsDone, signals,
                   deadAtPoll, aborted>>

(* out of signal_handler, into the frame it interrupted *)
UnwindHandler ==
    /\ exc # "none"
    /\ Len(stack) > 1
    /\ Top = "h_stop"
    /\ stack' = Below
    /\ UNCHANGED <<inputVars, mon, exc, pending, validator_process, proc,
                   stress_process, stress, i, elapsed, snap, preflightOk,
                   startOk, scenRet, ret, exitStatus, sigLog, stopCalls,
                   stopsDone, signals, deadAtPoll, aborted>>

(* in pre_flight_checks or at line 71: no handler but the finally clause *)
UnwindPreStart ==
    /\ exc # "none"
    /\ Len(stack) = 1
    /\ stack[1] \in {"preflight", "preflight2", "start_log", "finally"}
    /\ pending' = exc
    /\ exc' = "none"
    /\ stack' = <<"finally">>
    /\ UNCHANGED <<inputVars, mon, validator_process, proc, stress_process, stress,
                   i, elapsed, snap, preflightOk, startOk, scenRet, ret,
                   exitStatus, sigLog, stopCalls, stopsDone, signals,
                   deadAtPoll, aborted>>

(* in start_validator_with_monitoring's try: `except Exception`, lines 107-109 *)
UnwindStart ==
    /\ exc # "none"
    /\ Len(stack) = 1
    /\ stack[1] \in StartTryLabels
    /\ IF exc = "Exception"
       THEN startOk' = "False" /\ ret' = "False" /\ pending' = pending
       ELSE pending' = exc /\ UNCHANGED <<startOk, ret>>
    /\ exc' = "none"
    /\ stack' = <<"finally">>
    /\ UNCHANGED <<inputVars, mon, validator_process, proc, stress_process, stress,
                   i, elapsed, snap, preflightOk, scenRet, exitStatus, sigLog,
                   stopCalls, stopsDone, signals, deadAtPoll, aborted>>

(* in run_chaos_scenario's try: `except Exception`, lines 131-133; inside the    *)
(* cpu_stress strategy `except Exception`, lines 206-210, terminates stress-ng   *)
(* without waiting for it.  Leaving monitor_stress_test runs its finally clause, *)
(* line 281, whose query may raise an Exception in place of the one in flight.   *)
UnwindScenario ==
    /\ exc # "none"
    /\ Len(stack) = 1
    /\ stack[1] \in ScenarioLabels
    /\ \E finalLogFails \in BOOLEAN :
        LET e == IF stack[1] = "cs_loop" /\ finalLogFails THEN "Exception" ELSE exc
        IN  IF e = "Exception"
            THEN /\ scenRet' = "False"
                 /\ ret' = "False"
                 /\ pending' = pending
                 /\ stress' = IF /\ stack[1] \in CpuTryLabels
                                 /\ stress_process = "Popen"
                                 /\ stress = "running"
                              THEN "exited" ELSE stress
            ELSE /\ pending' = e
                 /\ UNCHANGED <<scenRet, ret, stress>>
    /\ exc' = "none"
    /\ stack' = <<"finally">>
    /\ UNCHANGED <<inputVars, mon, validator_process, proc, stress_process,
                   i, elapsed, snap, preflightOk, startOk, exitStatus, sigLog,
                   stopCalls, stopsDone, signals, deadAtPoll, aborted>>

(* out of the finally clause, or after the run returned: nothing catches it. *)
(* SystemExit(0) exits with status 0, any other exception with status 1.     *)
UnwindExit ==
    /\ exc # "none"
    /\ Len(stack) = 1
    /\ stack[1] \in {"in_finally", "report"}
    /\ exitStatus' = ExitCode(exc)
    /\ exc' = "none"
    /\ stack' = <<"exited">>
    /\ UNCHANGED <<inputVars, mon, pending, validator_process, proc, stress_process,
                   stress, i, elapsed, snap, preflightOk, startOk, scenRet, ret,
                   sigLog, stopCalls, stopsDone, signals, deadAtPoll, aborted>>

----------------------------------------------------------------------------
(* main, lines 304-313 *)

Report ==
    /\ AtMain("report")
    /\ exitStatus' = IF ret = "True" THEN 0 ELSE 1
    /\ stack' = <<"exited">>
    /\ UNCHANGED <<inputVars, mon, exc, pending, validator_process, proc,
                   stress_process, stress, i, elapsed, snap, preflightOk,
                   startOk, scenRet, ret, sigLog, stopCalls, stopsDone, signals,
                   deadAtPoll, aborted>>

----------------------------------------------------------------------------
(* The supervised processes *)

(* the validator exits, on its own or in answer to SIGTERM *)
ProcDies ==
    /\ proc = "running"
    /\ Top # "exited"
    /\ proc' = "exited"
    /\ UNCHANGED <<inputVars, mon, stack, exc, pending, validator_process,
                   stress_process, stress, i, elapsed, snap, preflightOk,
                   startOk, scenRet, ret, exitStatus, sigLog, stopCalls,
                   stopsDone, signals, deadAtPoll, aborted>>

(* stress-ng exits, at its --timeout or earlier *)
StressExits ==
    /\ stress = "running"
    /\ Top # "exited"
    /\ stress' = "exited"
    /\ UNCHANGED <<inputVars, mon, stack, exc, pending, validator_process, proc,
                   stress_process, i, elapsed, snap, preflightOk, startOk,
                   scenRet, ret, exitStatus, sigLog, stopCalls, stopsDone,
                   signals, deadAtPoll, aborted>>

----------------------------------------------------------------------------

Next ==
    \/ PreFlightHealth \/ PreFlightHeadroom
    \/ StartLog \/ Launch \/ Assign \/ StartupSleep \/ PostStart
    \/ Dispatch
    \/ MpInit \/ MpIter \/ MpDone
    \/ NcIter \/ NcDone
    \/ CsWhich \/ CsMonitorStart \/ CsIter \/ CsMonitorDone \/ CsWait
    \/ Finally
    \/ StopEnter \/ StopTerminate \/ StopWait \/ StopKill \/ StopWait2 \/ StopLog
    \/ Interrupt
    \/ UnwindStop \/ UnwindHandler \/ UnwindPreStart \/ UnwindStart
    \/ UnwindScenario \/ UnwindExit
    \/ Report
    \/ ProcDies \/ StressExits

Spec == Init /\ [][Next]_vars

(* the steps the program takes itself: everything but the arrival of a *)
(* signal and the exit of a child process                              *)
ProgramNext ==
    \/ PreFlightHealth \/ PreFlightHeadroom
    \/ StartLog \/ Launch \/ Assign \/ StartupSleep \/ PostStart
    \/ Dispatch
    \/ MpInit \/ MpIter \/ MpDone
    \/ NcIter \/ NcDone
    \/ CsWhich \/ CsMonitorStart \/ CsIter \/ CsMonitorDone \/ CsWait
    \/ Finally
    \/ StopEnter \/ StopTerminate \/ StopWait \/ StopKill \/ StopWait2 \/ StopLog
    \/ UnwindStop \/ UnwindHandler \/ UnwindPreStart \/ UnwindStart
    \/ UnwindScenario \/ UnwindExit
    \/ Report

(* The interpreter keeps running the program: every call and sleep that has *)
(* been started returns.  stress-ng, started with --timeout (line 194),     *)
(* exits.  Nothing is assumed about signals or about the validator exiting  *)
(* by itself.                                                               *)
(* The severity, which no step reads, is fixed.                             *)
LiveInit == Init /\ severity = "low"

LiveSpec ==
    LiveInit /\ [][Next]_vars /\ WF_vars(ProgramNext) /\ WF_vars(StressExits)


----------------------------------------------------------------------------
(* resource_utils.py called on its own: one ResourceMonitor call at a time, *)
(* on arguments, configurations and readings drawn from the sets below      *)

MinMbArgs == {<<>>, <<0>>, <<CriticalMb>>, <<HeadroomMb>>, <<2 * HeadroomMb>>}
ConfiguredHeadrooms == {CriticalMb, HeadroomMb, 2 * HeadroomMb}
EnsureAvails ==
    {0, 1} \cup {r * MiB + d : r \in ConfiguredHeadrooms, d \in {-1, 0, 1}}
PressureThresholds == {CpuThresholdPct, DiskThresholdPct}
PressurePcts == {th + d : th \in PressureThresholds, d \in {0, 1}}
PressureSamples == [memPct : MemPcts, cpuPct : PressurePcts, diskPct : PressurePcts]
Timeouts == {0, WaitSleepSecs, MaxTimeout}

(* monitor = ResourceMonitor(memory_headroom_mb=...); monitor.ensure_memory_headroom(min_mb) *)
EnsureCall ==
    /\ mon.op = "idle"
    /\ \E a \in EnsureAvails, min_mb \in MinMbArgs, cfg \in ConfiguredHeadrooms :
        mon' = [op |-> "ensure", avail |-> a, min_mb |-> min_mb,
                memory_headroom_mb |-> cfg,
                success |-> MonitorEnsureHeadroom([avail |-> a], min_mb, cfg)[1]]
    /\ UNCHANGED engineVars

(* the module-level ensure_memory_headroom(min_mb=512), lines 186-199 *)
ModuleEnsureCall ==
    /\ mon.op = "idle"
    /\ \E a \in EnsureAvails, min_mb \in MinMbArgs :
        LET bound == IF min_mb = <<>> THEN HeadroomMb ELSE min_mb[1]
        IN  mon' = [op |-> "module_ensure", avail |-> a, min_mb |-> min_mb,
                    memory_headroom_mb |-> HeadroomMb,
                    success |-> ensure_memory_headroom([avail |-> a], bound)]
    /\ UNCHANGED engineVars

(* monitor = ResourceMonitor(cpu_threshold=..., disk_threshold=...);  *)
(* monitor.check_resource_pressure()                                  *)
PressureCall ==
    /\ mon.op = "idle"
    /\ \E s \in PressureSamples, cpu_threshold \in PressureThresholds,
          disk_threshold \in PressureThresholds :
        mon' = [op |-> "pressure", s |-> s, cpu_threshold |-> cpu_threshold,
                disk_threshold |-> disk_threshold,
                result |-> check_resource_pressure(s, cpu_threshold, disk_threshold)]
    /\ UNCHANGED engineVars

(* wait_for_resource_availability(timeout_seconds) on a default monitor:  *)
(* start_time = time.time(), line 166.  elapsed is time.time() -          *)
(* start_time in whole seconds; lastPoll and prevPoll are the values it   *)
(* had when the two latest polls began (-1: no such poll).                *)
WaitStart ==
    /\ mon.op = "idle"
    /\ \E timeout_seconds \in Timeouts :
        mon' = [op |-> "wait", timeout_seconds |-> timeout_seconds, elapsed |-> 0,
                lastPoll |-> -1, prevPoll |-> -1, s |-> NoSnap, okSeen |-> FALSE,
                result |-> "none"]
    /\ UNCHANGED engineVars

(* a loop body with the time.sleep(5) left out *)
WaitPollNoSleep ==
    /\ mon.op = "wait"
    /\ mon.result = "none"
    /\ mon.elapsed < mon.timeout_seconds
    /\ \E s \in Samples :
        LET success  == MonitorEnsureHeadroom(s, <<>>, HeadroomMb)[1]
            pressure == check_resource_pressure(s, CpuThresholdPct, DiskThresholdPct)[1]
        IN  mon' = [mon EXCEPT
                      !.prevPoll = mon.lastPoll,
                      !.lastPoll = mon.elapsed,
                      !.s = Observed(s, "poll"),
                      !.okSeen = @ \/ (success /\ ~pressure),
                      !.result = IF success /\ ~pressure THEN "True" ELSE "none",
                      !.elapsed = @ + CpuSampleSecs]
    /\ UNCHANGED engineVars

(* one pass of the while loop, lines 168-180: the two queries (the CPU one *)
(* samples for one second), then return True or time.sleep(5), which may   *)
(* overrun by a second                                                     *)
WaitPoll ==
    /\ mon.op = "wait"
    /\ mon.result = "none"
    /\ mon.elapsed < mon.timeout_seconds
    /\ \E s \in Samples, overrun \in {0, 1} :
        LET success  == MonitorEnsureHeadroom(s, <<>>, HeadroomMb)[1]
            pressure == check_resource_pressure(s, CpuThresholdPct, DiskThresholdPct)[1]
        IN  mon' = [mon EXCEPT
                      !.prevPoll = mon.lastPoll,
                      !.lastPoll = mon.elapsed,
                      !.s = Observed(s, "poll"),
                      !.okSeen = @ \/ (success /\ ~pressure),
                      !.result = IF success /\ ~pressure THEN "True" ELSE "none",
                      !.elapsed = IF success /\ ~pressure
                                  THEN @ + CpuSampleSecs
                                  ELSE @ + CpuSampleSecs + WaitSleepSecs + overrun]
    /\ UNCHANGED engineVars

(* the while condition is false: lines 182-183 *)
WaitTimeout ==
    /\ mon.op = "wait"
    /\ mon.result = "none"
    /\ mon.elapsed >= mon.timeout_seconds
    /\ mon' = [mon EXCEPT !.result = "False"]
    /\ UNCHANGED engineVars

(* the call has returned to its caller *)
MonReturn ==
    /\ mon.op # "idle"
    /\ mon.op = "wait" => mon.result # "none"
    /\ mon' = MonIdle
    /\ UNCHANGED engineVars

(* an engine that is constructed and never run *)
MonInit ==
    /\ Init
    /\ scenario_type = "memory_pressure"
    /\ severity = "low"
    /\ duration = MaxDuration
    /\ binaryExists

MonNext ==
    \/ EnsureCall \/ ModuleEnsureCall
    \/ PressureCall
    \/ WaitStart \/ WaitPoll \/ WaitTimeout
    \/ MonReturn

SpecMonitor == MonInit /\ [][MonNext]_vars

----------------------------------------------------------------------------
(* Properties *)

Exited == stack = <<"exited">>

NoPressureIn(s) ==
    /\ s.memPct <= MemPressurePct
    /\ s.cpuPct <= CpuThresholdPct
    /\ s.diskPct <= DiskThresholdPct

(* another iteration of the running strategy's loop is due *)
LoopContinues ==
    \/ AtMain("mp_loop") /\ i < duration \div MemoryCadence
    \/ AtMain("nc_loop") /\ i < duration \div NetworkCadence
    \/ AtMain("cs_loop") /\ elapsed < duration

(* C1: once pre-flight has passed (the run enters STARTING), the run does not *)
(* come back from run_enhanced_chaos_test, and the program does not exit,     *)
(* without stop_validator having been invoked, whatever the start or the      *)
(* scenario returned, raised, or was interrupted by.                          *)
C1_ShutdownAlwaysRuns ==
    (preflightOk = "True" /\ stack[1] \in {"in_finally", "report", "exited"})
        => stopCalls >= 1

(* C1 witness: an uninterrupted run whose scenario failed has exited after *)
(* exactly one stop_validator call.                                        *)
C1_Witness ==
    /\ Exited
    /\ startOk = "True"
    /\ scenRet = "False"
    /\ signals = 0
    /\ stopCalls = 1
    /\ proc = "reaped"

(* C2: at program exit the monitored process is not running. *)
C2_NoOrphanAtExit ==
    Exited => proc # "running"

(* C3: an uninterrupted program exits with status 0 only if pre-flight     *)
(* passed, start succeeded and the scenario took no abort path.            *)
C3_ExitStatusZeroOnlyOnCleanRun ==
    (Exited /\ signals = 0 /\ exitStatus = 0)
        => (preflightOk = "True" /\ startOk = "True" /\ ~aborted)

(* C4: pre-flight passes only on sufficient headroom (both memory queries at *)
(* or above 512 MB), no metric over its threshold and the binary on disk;    *)
(* the validator is launched only after pre-flight passed; after a failed    *)
(* pre-flight the run returns False, nothing is launched, no signal is sent, *)
(* and an uninterrupted program exits with status 1.                         *)
C4_PreFlightGate ==
    /\ AtMain("preflight2") =>
          (snap.avail >= HeadroomMb * MiB /\ NoPressureIn(snap))
    /\ AtMain("start_log") =>
          /\ preflightOk = "True"
          /\ snap.avail >= HeadroomMb * MiB
          /\ NoPressureIn(snap)
          /\ binaryExists
    /\ (proc # "none" \/ validator_process # "None") => preflightOk = "True"
    /\ preflightOk = "False" =>
          /\ ret = "False"
          /\ proc = "none"
          /\ validator_process = "None"
          /\ stress = "none"
          /\ sigLog = <<>>
          /\ (Exited /\ signals = 0) => exitStatus = 1

(* C4 witness: a run whose pre-flight failed has cleaned up and exited 1. *)
C4_Witness ==
    /\ Exited
    /\ preflightOk = "False"
    /\ stopCalls = 1
    /\ exitStatus = 1

(* C5: a post-start check that observes less than 512 MB available makes *)
(* start report failure.                                                 *)
C5_PostStartHeadroomAborts ==
    (snap.site = "post_start" /\ snap.avail < HeadroomMb * MiB)
        => startOk = "False"

(* C6: every forced kill delivered to the validator follows a graceful       *)
(* terminate; a stop activation escalates only out of a grace wait that      *)
(* timed out on a validator that is still running; the forced kill is        *)
(* delivered only then, only to a running validator, and is followed by the  *)
(* unbounded wait; a running validator is sent the graceful terminate first. *)
C6_TwoPhaseStop ==
    /\ [](\A k \in 1..Len(sigLog) :
            sigLog[k] = "KILL" => \E j \in 1..(k - 1) : sigLog[j] = "TERM")
    /\ [][ /\ (Len(stack') = Len(stack) /\ Top' = "s_kill" /\ Top # "s_kill")
                => (Top = "s_wait" /\ proc = "running" /\ proc' = "running")
           /\ (Len(sigLog') > Len(sigLog) /\ sigLog'[Len(sigLog')] = "KILL")
                => (Top = "s_kill" /\ proc = "running" /\ Top' = "s_wait2")
           /\ (Len(stack') = Len(stack) /\ Top = "s_term" /\ Top' = "s_wait"
               /\ proc = "running")
                => sigLog' = Append(sigLog, "TERM")
         ]_vars

(* C6 witness: the validator outlived the grace wait, was killed and reaped. *)
C6_Witness ==
    /\ Exited
    /\ sigLog = <<"TERM", "KILL">>
    /\ proc = "reaped"

(* C7: a stop_validator call on a handle that an earlier call has already *)
(* stopped does not get past its entry check.                             *)
C7_SecondStopIsNoOp ==
    ~(Len(stack) > 1 /\ Top = "s_term" /\ proc = "reaped" /\ stopsDone >= 1)

(* C8: a strategy whose latest poll observed resource pressure returns *)
(* False.                                                              *)
C8_PressureReturnsFalse ==
    (snap.site = "poll" /\ ~NoPressureIn(snap) /\ scenRet # "none")
        => scenRet = "False"

(* C9: a strategy that polled while the validator was dead returns False. *)
C9_DeathReturnsFalse ==
    (deadAtPoll /\ scenRet # "none") => scenRet = "False"

(* C10: a scenario poll that observes less than 256 MB available ends the *)
(* strategy's loop at that poll.                                          *)
C10_CriticalMemoryEndsLoop ==
    (snap.site = "poll" /\ snap.avail < CriticalMb * MiB) => ~LoopContinues


(* a signal_handler activation is on the control stack *)
HandlerActive == \E k \in 1..Len(stack) : stack[k] = "h_stop"

(* C11: while the signal handler is active no terminate, wait, kill or final *)
(* log runs: the handler leaves all of stop_validator's work to the          *)
(* orchestrator's own cleanup.                                               *)
C11_HandlerDefersAllWork ==
    HandlerActive => Top \notin (StopTryLabels \cup {"s_log"})

KnownScenario ==
    scenario_type \in {"memory_pressure", "cpu_stress", "network_chaos"}

(* C12: for an unknown scenario kind no strategy label is entered and no poll *)
(* is made, the dispatch returns False, the run never returns True, and an    *)
(* uninterrupted program exits with status 1.                                 *)
C12_UnknownScenarioFailsClosed ==
    ~KnownScenario =>
        /\ stack[1] \notin (MemoryLabels \cup NetworkLabels \cup CpuTryLabels)
        /\ snap.site # "poll"
        /\ ~deadAtPoll
        /\ stress = "none"
        /\ scenRet # "True"
        /\ ret # "True"
        /\ (stack[1] \in {"finally", "in_finally", "report", "exited"}
            /\ startOk = "True" /\ pending = "none" /\ signals = 0)
              => scenRet = "False"
        /\ (Exited /\ signals = 0) => exitStatus = 1

(* C12 witness: an uninterrupted run of an unknown scenario started the  *)
(* validator, failed at dispatch, stopped the validator and exited 1.    *)
C12_Witness ==
    /\ Exited
    /\ ~KnownScenario
    /\ startOk = "True"
    /\ scenRet = "False"
    /\ signals = 0
    /\ exitStatus = 1
    /\ proc = "reaped"

(* C13: ensure_memory_headroom reports failure exactly when the available  *)
(* memory is below the requirement, which is min_mb when one is given (0   *)
(* included) and the configured headroom otherwise; available = required   *)
(* is a success.  Both the method and the module-level function.           *)
C13_HeadroomFalseIffBelowRequired ==
    mon.op \in {"ensure", "module_ensure"} =>
        LET required_mb == IF mon.min_mb = <<>> THEN mon.memory_headroom_mb
                           ELSE mon.min_mb[1]
        IN  /\ (mon.success = FALSE) <=> (mon.avail < required_mb * MiB)
            /\ (mon.success = TRUE) <=> (mon.avail >= required_mb * MiB)

(* C13 witness: no min_mb given, available memory equal to the configured *)
(* headroom of a non-default monitor, and the call succeeded.             *)
C13_Witness ==
    /\ mon.op = "ensure"
    /\ mon.min_mb = <<>>
    /\ mon.memory_headroom_mb = CriticalMb
    /\ mon.avail = CriticalMb * MiB
    /\ mon.success = TRUE

(* the metrics of a reading that exceed their thresholds *)
Breached(s, cpu_threshold, disk_threshold) ==
    {m \in {"memory", "cpu", "disk"} :
        \/ m = "memory" /\ s.memPct > MemPressurePct
        \/ m = "cpu" /\ s.cpuPct > cpu_threshold
        \/ m = "disk" /\ s.diskPct > disk_threshold}

(* C14: check_resource_pressure lists each metric above its own threshold *)
(* once and no other metric, and has_pressure is true exactly when the    *)
(* list is not empty.                                                     *)
C14_PressureReportsExactlyBreached ==
    mon.op = "pressure" =>
        LET issues   == mon.result[2]
            breached == Breached(mon.s, mon.cpu_threshold, mon.disk_threshold)
        IN  /\ {issues[k] : k \in 1..Len(issues)} = breached
            /\ Len(issues) = Cardinality(breached)
            /\ mon.result[1] = (breached # {})

(* C14 witness: with different CPU and disk thresholds, memory and disk are *)
(* above theirs, the CPU reading is above the disk threshold's value but    *)
(* not above its own, and has_pressure is true.                             *)
C14_Witness ==
    /\ mon.op = "pressure"
    /\ mon.cpu_threshold = DiskThresholdPct
    /\ mon.disk_threshold = CpuThresholdPct
    /\ mon.s.cpuPct = DiskThresholdPct
    /\ mon.s.diskPct = CpuThresholdPct + 1
    /\ mon.s.memPct > MemPressurePct
    /\ mon.result[1]
    /\ Len(mon.result[2]) = 2

(* the latest reading of a wait shows enough headroom and no pressure *)
WaitReadingOk ==
    /\ mon.s.avail >= HeadroomMb * MiB
    /\ Breached(mon.s, CpuThresholdPct, DiskThresholdPct) = {}

(* C15: wait_for_resource_availability has returned True exactly when a    *)
(* poll begun before the timeout read enough headroom and no pressure (and *)
(* that poll is its last), has returned False only with the timeout        *)
(* elapsed and no such poll, and begins no poll less than 5 s after the    *)
(* one before.                                                             *)
C15_WaitPollsEveryFiveSeconds ==
    mon.op = "wait" =>
        /\ mon.okSeen <=> mon.result = "True"
        /\ mon.result = "True" =>
              /\ 0 <= mon.lastPoll
              /\ mon.lastPoll < mon.timeout_seconds
              /\ WaitReadingOk
        /\ mon.result = "False" => mon.elapsed >= mon.timeout_seconds
        /\ (mon.lastPoll >= 0 /\ mon.result # "True") => ~WaitReadingOk
        /\ mon.prevPoll >= 0 => mon.lastPoll - mon.prevPoll >= WaitSleepSecs

(* C15 witness: a wait whose first poll failed returned True on a later *)
(* poll, begun before the timeout.                                      *)
C15_Witness ==
    /\ mon.op = "wait"
    /\ mon.result = "True"
    /\ mon.prevPoll >= 0
    /\ mon.lastPoll < mon.timeout_seconds

(* C16: no Exception is left uncaught: none is held through the finally *)
(* clause and none leaves it or main.  (Every Exception that reaches    *)
(* these places comes from a failed resource query.)                    *)
C16_QueryFailureNeverFatal ==
    /\ pending # "Exception"
    /\ ~(Len(stack) = 1 /\ stack[1] \in {"in_finally", "report"} /\ exc = "Exception")

(* C17: an uninterrupted memory_pressure run that polled while the validator *)
(* was dead ends with the strategy returning False, exit status 1 and        *)
(* exactly one stop_validator call.                                          *)
C17_DeathDetectedCleanupOnce ==
    (Exited /\ scenario_type = "memory_pressure" /\ deadAtPoll /\ signals = 0)
        => (scenRet = "False" /\ exitStatus = 1 /\ stopCalls = 1)


(* C18: a cpu_stress strategy that found no stress-ng and has returned while *)
(* the validator is still running has returned True.                         *)
C18_MonitorOnlySucceedsWhenHealthy ==
    (/\ scenario_type = "cpu_stress"
     /\ stress_process = "None"
     /\ scenRet # "none"
     /\ proc = "running")
        => scenRet = "True"

(* the phase of run_enhanced_chaos_test the main flow is in:                 *)
(* 1 PRE_FLIGHT, 2 STARTING, 3 RUNNING_SCENARIO, 4 SHUTTING_DOWN, 5 DONE     *)
PhaseRank ==
    IF stack[1] \in {"preflight", "preflight2"} THEN 1
    ELSE IF stack[1] \in {"start_log", "launch", "assign", "startup_sleep",
                          "post_start"} THEN 2
    ELSE IF stack[1] \in ({"dispatch"} \cup ScenarioLabels) THEN 3
    ELSE IF stack[1] \in {"finally", "in_finally", "report"} THEN 4
    ELSE 5

PhaseStep ==
    /\ PhaseRank' >= PhaseRank
    /\ (proc' = "running" /\ proc # "running")
          => (proc = "none" /\ stack[1] = "launch" /\ preflightOk = "True")

PhaseGates ==
    /\ PhaseRank = 2 => preflightOk = "True"
    /\ PhaseRank = 3 => (preflightOk = "True" /\ startOk = "True")
    /\ proc # "none" => preflightOk = "True"

(* C19: the main flow's phase never goes back, so each phase is one interval *)
(* of the run; the validator is launched only from "never launched", only at *)
(* line 81 and only after pre-flight passed; a strategy runs only after a    *)
(* successful start.                                                         *)
C19_PhasesInOrderLaunchOnce == [][PhaseStep]_vars /\ []PhaseGates

(* C19 witness: the validator died during network_chaos, the poll saw it, *)
(* the run went on to cleanup and exit, and it was never relaunched.      *)
C19_Witness ==
    /\ Exited
    /\ scenario_type = "network_chaos"
    /\ deadAtPoll
    /\ scenRet = "False"
    /\ stopCalls = 1
    /\ proc = "reaped"

ProcessStep ==
    /\ proc \in {"exited", "reaped"} => proc' \in {"exited", "reaped"}
    /\ proc = "reaped" => proc' = "reaped"
    /\ validator_process = "Popen" => validator_process' = "Popen"
    /\ (proc' = "running" /\ proc # "running") => AtMain("launch")
    /\ validator_process' # validator_process => AtMain("assign")
    /\ (proc' = "reaped" /\ proc # "reaped")
          => \/ Top \in {"s_term", "s_wait", "s_kill", "s_wait2"}
             \/ AtMain("startup_sleep") \/ AtMain("mp_loop") \/ AtMain("nc_loop")

(* C20: the validator's state only advances: an exited or reaped child is   *)
(* never running again, self.validator_process is never cleared, the child  *)
(* starts running only at the Popen call of start_validator_with_monitoring *)
(* and its exit is recorded only by a poll(), wait(), terminate() or kill()  *)
(* the engine makes.                                                        *)
C20_ProcessStateMonotonic == [][ProcessStep]_vars

(* C20 witness: a signal's stop_validator and the finally clause's both ran *)
(* on a validator that had been started, and the process stayed stopped.    *)
C20_Witness ==
    /\ Exited
    /\ validator_process = "Popen"
    /\ proc = "reaped"
    /\ signals = 1
    /\ stopsDone = 2


(* a step of the stop_validator activation on top of the stack that is not *)
(* the arrival of a signal                                                 *)
StopFrameStep ==
    /\ Len(stack) > 1
    /\ Top \in StopLabels
    /\ stack' # stack
    /\ Len(stack') <= Len(stack)

StopPathStep ==
    /\ (StopFrameStep /\ exc = "none") =>
          \/ Top = "s_enter"
               /\ (validator_process = "None" \/ stack' = SetTop("s_term"))
          \/ Top \in StopTryLabels
               /\ \E l \in StopTryLabels \cup {"s_log"} : stack' = SetTop(l)
          \/ Top = "s_log"
    /\ (StopFrameStep /\ exc = "Exception" /\ Top \in StopTryLabels) =>
          (stack' = SetTop("s_log") /\ exc' = "none")

(* C21: a stop_validator that found a validator_process leaves its try     *)
(* statement only to the log_resource_usage call of line 252, whether the  *)
(* child exited in the grace period, was killed, or a call raised; the     *)
(* activation ends only from that call (or, with nothing launched, at the  *)
(* test of line 232).                                                      *)
C21_StopAlwaysReachesFinalLog == [][StopPathStep]_vars

(* C21 witness: terminate() raised on a running validator and stop_validator *)
(* stands at the final log, the child still running and no signal sent.      *)
C21_Witness ==
    /\ Len(stack) > 1
    /\ Top = "s_log"
    /\ exc = "none"
    /\ proc = "running"
    /\ sigLog = <<>>
    /\ stopsDone = 0


(* what a step may depend on besides the readings and the processes: the *)
(* duration and the fixed thresholds, never the severity                 *)
SeverityBlindStep ==
    /\ severity' = severity
    /\ (Len(stack) = 1 /\ stack[1] = "mp_loop" /\ i' = i + 1)
          => i' <= duration \div MemoryCadence
    /\ (Len(stack) = 1 /\ stack[1] = "nc_loop" /\ i' = i + 1)
          => i' <= duration \div NetworkCadence
    /\ (Len(stack) = 1 /\ stack[1] = "cs_loop" /\ stack' = stack /\ elapsed' # elapsed)
          => /\ elapsed < duration
             /\ elapsed' - elapsed =
                   (IF duration \div LogIntervalDivisor < MaxLogInterval
                    THEN duration \div LogIntervalDivisor ELSE MaxLogInterval)
                   + 2 * CpuSampleSecs
    /\ (Len(stack) = 1 /\ stack[1] = "mp_loop" /\ stack' = <<"finally">>
        /\ exc = "none" /\ i < duration \div MemoryCadence /\ scenRet' = "True")
          => \/ Breached(snap', CpuThresholdPct, DiskThresholdPct) # {}
             \/ snap'.avail < CriticalMb * MiB
    /\ (Len(stack) = 1 /\ stack[1] = "cs_loop" /\ stack' = <<"cs_wait">>
        /\ exc = "none" /\ elapsed < duration)
          => /\ Breached(snap', CpuThresholdPct, DiskThresholdPct) # {}
             /\ snap'.avail < CriticalMb * MiB
    /\ (Len(stack) = 1 /\ stack[1] = "preflight" /\ stack' = <<"preflight2">>)
          => /\ Breached(snap', CpuThresholdPct, DiskThresholdPct) = {}
             /\ snap'.avail >= HeadroomMb * MiB

(* C22: the severity is never changed, and every loop bound, sleep cadence  *)
(* and threshold a step applies is the one computed from the duration and   *)
(* the fixed limits alone, whatever the severity of the run.                *)
C22_SeverityInert == [][SeverityBlindStep]_vars

(* C22 witness: a run of severity "high" is two log intervals into the *)
(* cpu_stress monitor loop of the longest duration.                    *)
C22_Witness ==
    /\ AtMain("cs_loop")
    /\ severity = "high"
    /\ duration = MaxDuration
    /\ elapsed = 2 * (MaxDuration \div LogIntervalDivisor + 2 * CpuSampleSecs)


(* the main flow, not interrupted, takes a step from label l: the step is *)
(* the program's, not the exit of the validator or of stress-ng           *)
MainStepAt(l) ==
    /\ Len(stack) = 1 /\ stack[1] = l /\ exc = "none" /\ Len(stack') = 1
    /\ ~(proc = "running" /\ proc' = "exited")
    /\ ~(stress = "running" /\ stress' = "exited")

(* the step recorded a reading at the given site *)
TookReading(site) == snap'.site = site /\ exc' = "none"

FreshSampleStep ==
    \* pre-flight: check_system_health aborts exactly on what it has just read
    /\ (MainStepAt("preflight") /\ TookReading("preflight")) =>
          (preflightOk' = "False" <=>
              (snap'.avail < HeadroomMb * MiB
               \/ Breached(snap', CpuThresholdPct, DiskThresholdPct) # {}))
    /\ (MainStepAt("preflight") /\ preflightOk' # preflightOk) => TookReading("preflight")
    \* pre-flight: ensure_memory_headroom(512), then the binary
    /\ (MainStepAt("preflight2") /\ TookReading("preflight")) =>
          (preflightOk' = "False" <=>
              (snap'.avail < HeadroomMb * MiB \/ ~binaryExists))
    /\ (MainStepAt("preflight2") /\ preflightOk' # preflightOk) => TookReading("preflight")
    \* memory_pressure: both break decisions of an iteration
    /\ (MainStepAt("mp_loop") /\ i < duration \div MemoryCadence /\ TookReading("poll")) =>
          /\ Breached(snap', CpuThresholdPct, DiskThresholdPct) # {}
                => (aborted' /\ stack' = <<"finally">>)
          /\ (Breached(snap', CpuThresholdPct, DiskThresholdPct) = {}
              /\ snap'.avail >= CriticalMb * MiB
              /\ proc = "running")
                => (stack' = stack /\ i' = i + 1)
          /\ (Breached(snap', CpuThresholdPct, DiskThresholdPct) = {}
              /\ snap'.avail < CriticalMb * MiB
              /\ proc = "running")
                => (aborted' /\ stack' = <<"finally">>)
    /\ (MainStepAt("mp_loop") /\ aborted' /\ ~aborted) => TookReading("poll")
    \* monitor_stress_test: the critical abort
    /\ (MainStepAt("cs_loop") /\ elapsed < duration /\ TookReading("poll")) =>
          (stack' = <<"cs_wait">> <=>
              (Breached(snap', CpuThresholdPct, DiskThresholdPct) # {}
               /\ snap'.avail < CriticalMb * MiB))
    /\ (MainStepAt("cs_loop") /\ aborted' /\ ~aborted) => TookReading("poll")

(* C23: every step that aborts on resources (pre-flight, pressure, critical *)
(* memory) takes a reading in that step and decides on that reading alone:  *)
(* it aborts exactly when the new reading calls for it, whatever the        *)
(* reading of the iteration before was.                                     *)
C23_AbortsUseFreshSample == [][FreshSampleStep]_vars

(* C23 witness: the second memory_pressure iteration has left the loop on  *)
(* its own reading, one of critical memory without resource pressure.      *)
C23_Witness ==
    /\ AtMain("finally")
    /\ scenario_type = "memory_pressure"
    /\ aborted
    /\ scenRet = "True"
    /\ i = 1
    /\ snap.site = "poll"
    /\ Breached(snap, CpuThresholdPct, DiskThresholdPct) = {}
    /\ snap.avail < CriticalMb * MiB


C25_ShortDurationSucceedsUnpolled ==
    /\ (stack[1] = "mp_loop" => i <= duration \div MemoryCadence)
    /\ (stack[1] = "nc_loop" => i <= duration \div NetworkCadence)
    /\ (scenario_type = "memory_pressure" /\ duration < MemoryCadence)
          => (snap.site # "poll" /\ ~deadAtPoll /\ scenRet \in {"none", "True"})
    /\ (scenario_type = "network_chaos" /\ duration < NetworkCadence)
          => (snap.site # "poll" /\ ~deadAtPoll /\ scenRet \in {"none", "True"})


(* C26: once the cpu_stress strategy has been left, by return or by an *)
(* exception or SystemExit passing through it, a stress-ng it started  *)
(* is not running any more.                                            *)
C26_StressStoppedWhenStrategyLeft ==
    (stack[1] \in {"finally", "in_finally", "report", "exited"}
     /\ stress_process = "Popen")
        => stress # "running"


(* C27: a handler's stop_validator is not abandoned before its end, and a *)
(* program that received a signal exits with status 0.                    *)
C27_SignalStopsThenExitsZero ==
    /\ (Exited /\ signals >= 1) => exitStatus = 0
    /\ (HandlerActive /\ Top = "h_stop") => exc = "SystemExit"

====
